---- MODULE Spec2Model ----
(***************************************************************************)
(* WHOIS & DNS recon tool (src/src/recon_tool.py).                         *)
(*                                                                         *)
(* Python strings are sequences of one-character strings, so that          *)
(* lower(), strip(), startswith(), slicing, concatenation and the          *)
(* code-point ordering used by sorted() are computed, not assumed.         *)
(* Python's None, where a string is optional, is the one-element sequence  *)
(* None whose element is not a character.  An insertion-ordered dict of    *)
(* record types is a sequence of [key, vals] pairs.                        *)
(***************************************************************************)
EXTENDS Integers, Sequences, FiniteSets, TLC

VARIABLES
  pc,        \* position in the running function
  domain,    \* argument: the target domain
  out,       \* argument: the output path, or None
  fmt,       \* argument: the export format
  client,    \* what the WHOIS client does when called in this run
  w,         \* run's local w: the WHOIS record
  records,   \* gather_dns's local records / run's local d
  io,        \* every external effect so far, in order: client and resolver
             \* calls, console prints, file writes
  out_data,  \* run's local out_data / to_csv's argument data
  clock      \* seconds elapsed on the system clock

vars == <<pc, domain, out, fmt, client, w, records, io, out_data, clock>>

Unset == [unset |-> TRUE]

-----------------------------------------------------------------------------
(* Strings *)

Ascii ==
  <<" ", "!", "\"", "#", "$", "%", "&", "'", "(", ")", "*", "+", ",", "-",
    ".", "/", "0", "1", "2", "3", "4", "5", "6", "7", "8", "9", ":", ";",
    "<", "=", ">", "?", "@", "A", "B", "C", "D", "E", "F", "G", "H", "I",
    "J", "K", "L", "M", "N", "O", "P", "Q", "R", "S", "T", "U", "V", "W",
    "X", "Y", "Z", "[", "\\", "]", "^", "_", "GRAVE", "a", "b", "c", "d", "e",
    "f", "g", "h", "i", "j", "k", "l", "m", "n", "o", "p", "q", "r", "s",
    "t", "u", "v", "w", "x", "y", "z", "{", "|", "}", "~">>

(* Code point of a character; position 96 of the table stands for the grave *)
(* accent, which no string of the model contains.                          *)
OrdTable ==
  [c \in {Ascii[i] : i \in 1..Len(Ascii)} |->
     31 + CHOOSE i \in 1..Len(Ascii) : Ascii[i] = c]

Ord(c) == OrdTable[c]

Chr(n) == Ascii[n - 31]

None == <<"None">>

Truthy(s) == s # None /\ s # <<>>

LowerTable ==
  [c \in DOMAIN OrdTable |->
     IF Ord(c) >= 65 /\ Ord(c) <= 90 THEN Chr(Ord(c) + 32) ELSE c]

LowerChar(c) == LowerTable[c]

Lower(s) == [i \in 1..Len(s) |-> LowerChar(s[i])]

StartsWith(s, p) == Len(s) >= Len(p) /\ SubSeq(s, 1, Len(p)) = p

Strip(s, chars) ==
  LET keep == {i \in 1..Len(s) : s[i] \notin chars}
  IN  IF keep = {} THEN <<>>
      ELSE SubSeq(s, CHOOSE i \in keep : \A j \in keep : i <= j,
                     CHOOSE i \in keep : \A j \in keep : j <= i)

RECURSIVE Join(_, _)
Join(sep, l) ==
  IF l = <<>> THEN <<>>
  ELSE IF Len(l) = 1 THEN l[1]
  ELSE l[1] \o sep \o Join(sep, Tail(l))

StrLess(a, b) ==
  \/ Len(a) < Len(b) /\ SubSeq(b, 1, Len(a)) = a
  \/ \E i \in 1..Len(a) :
       /\ i <= Len(b)
       /\ SubSeq(a, 1, i - 1) = SubSeq(b, 1, i - 1)
       /\ Ord(a[i]) < Ord(b[i])

RECURSIVE Sorted(_)
Sorted(S) ==
  IF S = {} THEN <<>>
  ELSE LET m == CHOOSE x \in S : \A y \in S \ {x} : StrLess(x, y)
       IN  <<m>> \o Sorted(S \ {m})

Range(l) == {l[i] : i \in 1..Len(l)}

RECURSIVE Perms(_)
Perms(S) ==
  IF S = {} THEN {<<>>}
  ELSE UNION {{<<x>> \o p : p \in Perms(S \ {x})} : x \in S}

RECURSIVE Digits(_, _)
Digits(n, width) ==
  IF width = 0 THEN <<>>
  ELSE Digits(n \div 10, width - 1) \o <<Chr(48 + (n % 10))>>

-----------------------------------------------------------------------------
(* WHOIS normalizer *)

RawCap == 2000

(* An attribute of the client's result object is absent, None, a string    *)
(* (s), a datetime (d), a list (l) or a set (e).                          *)
AbsentAttr == [t |-> "absent"]
NoneAttr == [t |-> "none"]
EmptyListAttr == [t |-> "list", l |-> <<>>]
EmptyStrAttr == [t |-> "str", s |-> <<>>]

GetAttr(obj, name, default) ==
  IF obj[name].t = "absent" THEN default ELSE obj[name]

(* The lists safe_list can return: a set is listed in an arbitrary order. *)
safe_list(x) ==
  CASE x.t = "none" -> {<<>>}
    [] x.t = "list" -> {x.l}
    [] x.t = "set"  -> Perms(x.e)
    [] x.t = "str"  -> {<<x.s>>}

Strftime(d) ==
  Digits(d.Y, 4) \o <<"-">> \o Digits(d.M, 2) \o <<"-">> \o Digits(d.D, 2)
    \o <<" ">> \o Digits(d.h, 2) \o <<":">> \o Digits(d.m, 2) \o <<":">>
    \o Digits(d.s, 2)

Falsy(x) ==
  \/ x.t = "none"
  \/ x.t = "list" /\ x.l = <<>>
  \/ x.t = "str" /\ x.s = <<>>

fmt_date(d) ==
  IF Falsy(d) THEN None
  ELSE LET e == IF d.t = "list" THEN d.l[1] ELSE d
       IN  IF e.t = "datetime" THEN Strftime(e.d) ELSE e.s

Registrar(x) == IF x.t = "str" THEN x.s ELSE None

NameServers(l) ==
  Sorted({Strip(l[i], {"."}) : i \in {j \in 1..Len(l) : Truthy(l[j])}})

Str(x) == IF x.t = "none" THEN <<"N", "o", "n", "e">> ELSE x.s

Raw(x) == LET t == Str(x)
          IN  SubSeq(t, 1, IF Len(t) < RawCap THEN Len(t) ELSE RawCap)

WhoisFailed == <<"W", "H", "O", "I", "S", " ", "f", "a", "i", "l", "e", "d",
                 ":", " ">>

WhoisData(dom, obj, nsl, stl) ==
  [domain          |-> dom,
   registrar       |-> Registrar(GetAttr(obj, "registrar", NoneAttr)),
   creation_date   |-> fmt_date(GetAttr(obj, "creation_date", NoneAttr)),
   expiration_date |-> fmt_date(GetAttr(obj, "expiration_date", NoneAttr)),
   updated_date    |-> fmt_date(GetAttr(obj, "updated_date", NoneAttr)),
   name_servers    |-> NameServers(nsl),
   status          |-> stl,
   raw             |-> Raw(GetAttr(obj, "text", EmptyStrAttr))]

WhoisError_partial(e) == [error |-> WhoisFailed \o e, raw |-> <<>>]

WhoisError(e) == [error |-> WhoisFailed \o e]

WhoisCall(dom) == [kind |-> "whois", domain |-> dom]

(* The values whois_lookup can return for one behaviour of the client; more *)
(* than one only when a set-valued attribute is listed in arbitrary order.  *)
(* Every exception class of the client derives from Exception.              *)
whois_lookup(dom, cl) ==
  IF cl.kind = "raise" THEN {WhoisError(cl.msg)}
  ELSE {WhoisData(dom, cl.obj, nsl, stl) :
          nsl \in safe_list(GetAttr(cl.obj, "name_servers", EmptyListAttr)),
          stl \in safe_list(GetAttr(cl.obj, "status", EmptyListAttr))}

-----------------------------------------------------------------------------
(* DNS gatherer *)

NXDOMAIN == <<"N", "X", "D", "O", "M", "A", "I", "N">>

DnsErrorPrefix == <<"D", "N", "S", " ", "e", "r", "r", "o", "r", ":", " ">>

SpfPrefix == <<"v", "=", "s", "p", "f", "1">>

DmarcPrefix == <<"v", "=", "d", "m", "a", "r", "c", "1">>

DmarcLabel == <<"_", "d", "m", "a", "r", "c", ".">>

BaseTypes_swapped == <<"A", "AAAA", "TXT", "MX", "NS", "CNAME">>

BaseTypes == <<"A", "AAAA", "MX", "TXT", "NS", "CNAME">>

(* dns.resolver.NXDOMAIN, NoAnswer and every other resolver exception derive *)
(* from dns.exception.DNSException.                                         *)
IsInstance(cls, base) == cls = base \/ base = "DNSException"

to_text(a) == a.text

dns_query_baseFirst(outcome) ==
  IF outcome.kind = "answers"
  THEN [i \in 1..Len(outcome.rrset) |-> to_text(outcome.rrset[i])]
  ELSE IF IsInstance(outcome.cls, "DNSException")
       THEN <<DnsErrorPrefix \o outcome.msg>>
  ELSE IF IsInstance(outcome.cls, "NXDOMAIN") THEN <<NXDOMAIN>>
  ELSE <<>>

dns_query_nxEmpty(outcome) ==
  IF outcome.kind = "answers"
  THEN [i \in 1..Len(outcome.rrset) |-> to_text(outcome.rrset[i])]
  ELSE IF IsInstance(outcome.cls, "NXDOMAIN") THEN <<>>
  ELSE IF IsInstance(outcome.cls, "NoAnswer") THEN <<>>
  ELSE <<DnsErrorPrefix \o outcome.msg>>

(* The except clauses are tried in source order. *)
dns_query(outcome) ==
  IF outcome.kind = "answers"
  THEN [i \in 1..Len(outcome.rrset) |-> to_text(outcome.rrset[i])]
  ELSE IF IsInstance(outcome.cls, "NXDOMAIN") THEN <<NXDOMAIN>>
  ELSE IF IsInstance(outcome.cls, "NoAnswer") THEN <<>>
  ELSE <<DnsErrorPrefix \o outcome.msg>>

IsSpf_caseSensitive(t) == StartsWith(t, SpfPrefix)

IsSpf(t) == StartsWith(Lower(t), SpfPrefix)

IsDmarc(t) == StartsWith(Lower(t), DmarcPrefix)

FilterSpf(l) == SelectSeq(l, IsSpf)

FilterDmarc(l) == SelectSeq(l, IsDmarc)

(* Insertion-ordered dict *)
Keys(d) == {d[i].key : i \in 1..Len(d)}

Get(d, k) == d[CHOOSE i \in 1..Len(d) : d[i].key = k].vals

DictSet(d, k, v) ==
  IF k \in Keys(d)
  THEN [i \in 1..Len(d) |-> IF d[i].key = k THEN [key |-> k, vals |-> v]
                                             ELSE d[i]]
  ELSE Append(d, [key |-> k, vals |-> v])

Resolve(qname, rtype, outcome) ==
  [kind |-> "resolve", qname |-> qname, rtype |-> rtype, outcome |-> outcome]

Queries == SelectSeq(io, LAMBDA e : e.kind = "resolve")

(* Number of resolver calls gather_dns has made so far. *)
Asked == Len(Queries)

(* Lines 77-78: one pass of the loop over the base types. *)
GatherBase(outcomes, qi) ==
  /\ pc = "gather_dns"
  /\ qi = Asked + 1
  /\ qi <= Len(BaseTypes)
  /\ \E o \in outcomes[qi] :
       /\ io' = Append(io, Resolve(domain, BaseTypes[qi], o))
       /\ records' = DictSet(records, BaseTypes[qi], dns_query(o))
  /\ UNCHANGED <<pc, domain, out, fmt, client, w, out_data, clock>>

GatherDerived_spfIfAny(outcomes, ret) ==
  /\ pc = "gather_dns"
  /\ Asked = Len(BaseTypes)
  /\ \E o \in outcomes[Len(BaseTypes) + 1] :
       LET spf   == FilterSpf(Get(records, "TXT"))
           dmarc == FilterDmarc(dns_query(o))
       IN  /\ io' = Append(io, Resolve(DmarcLabel \o domain, "TXT", o))
           /\ records' = DictSet(IF spf # <<>> THEN DictSet(records, "SPF", spf)
                                               ELSE records, "DMARC", dmarc)
  /\ pc' = ret
  /\ UNCHANGED <<domain, out, fmt, client, w, out_data, clock>>

(* Lines 80-85: the SPF filter, the _dmarc query and its filter, return. *)
GatherDerived(outcomes, ret) ==
  /\ pc = "gather_dns"
  /\ Asked = Len(BaseTypes)
  /\ \E o \in outcomes[Len(BaseTypes) + 1] :
       LET spf   == FilterSpf(Get(records, "TXT"))
           dmarc == FilterDmarc(dns_query(o))
       IN  /\ io' = Append(io, Resolve(DmarcLabel \o domain, "TXT", o))
           /\ records' = DictSet(DictSet(records, "SPF", spf), "DMARC", dmarc)
  /\ pc' = ret
  /\ UNCHANGED <<domain, out, fmt, client, w, out_data, clock>>

WhoisLookup_abort(ret) ==
  /\ pc = "whois_lookup"
  /\ io' = Append(io, WhoisCall(domain))
  /\ w' \in whois_lookup(domain, client)
  /\ pc' = IF client.kind = "raise" THEN "raised" ELSE ret
  /\ UNCHANGED <<domain, out, fmt, client, records, out_data, clock>>

(* Lines 34-62: one call of the client, then the normalization. *)
WhoisLookup(ret) ==
  /\ pc = "whois_lookup"
  /\ io' = Append(io, WhoisCall(domain))
  /\ w' \in whois_lookup(domain, client)
  /\ pc' = ret
  /\ UNCHANGED <<domain, out, fmt, client, records, out_data, clock>>

-----------------------------------------------------------------------------
(* Reporter *)

Dash == <<"-">>

CommaSpace == <<",", " ">>

Newline == <<"\n">>

OrDash(s) == IF Truthy(s) THEN s ELSE Dash

WhoisTitle == <<"W", "H", "O", "I", "S">>

Panel(title, style, body) ==
  [kind |-> "print", widget |-> "panel", title |-> title, style |-> style,
   body |-> body]

Table(title, rows) ==
  [kind |-> "print", widget |-> "table", title |-> title, rows |-> rows]

Line(style, prefix, path) ==
  [kind |-> "print", widget |-> "line", style |-> style, body |-> prefix,
   path |-> path]

Markup(tag, s) == <<"[">> \o tag \o <<"]">> \o s \o <<"[", "/">> \o tag \o <<"]">>

Red == <<"r", "e", "d">>

print_whois(rec) ==
  IF "error" \in DOMAIN rec
  THEN <<Panel(WhoisTitle, "red", Markup(Red, rec.error))>>
  ELSE <<Table(WhoisTitle \o <<":", " ">> \o rec.domain,
               <<[k |-> "Registrar", v |-> OrDash(rec.registrar)],
                 [k |-> "Created", v |-> OrDash(rec.creation_date)],
                 [k |-> "Updated", v |-> OrDash(rec.updated_date)],
                 [k |-> "Expires", v |-> OrDash(rec.expiration_date)],
                 [k |-> "Name Servers",
                  v |-> OrDash(Join(CommaSpace, rec.name_servers))],
                 [k |-> "Status",
                  v |-> OrDash(Join(CommaSpace, rec.status))]>>)>>

DnsTitle == <<"D", "N", "S", " ", "R", "e", "c", "o", "r", "d", "s", ":", " ">>

NoSpf == <<"N", "o", " ", "S", "P", "F", " ", "r", "e", "c", "o", "r", "d",
           " ", "f", "o", "u", "n", "d">>

NoDmarc == <<"N", "o", " ", "D", "M", "A", "R", "C", " ", "r", "e", "c", "o",
             "r", "d", " ", "f", "o", "u", "n", "d", " ", "a", "t", " ">>
             \o DmarcLabel

SpfTitle == <<"S", "P", "F", " ", "(", "T", "X", "T", ")">>

DmarcTitle == <<"D", "M", "A", "R", "C", " ", "(", "T", "X", "T", ")">>

RECURSIVE DnsRows(_)
DnsRows(d) ==
  IF d = <<>> THEN <<>>
  ELSE (IF d[1].key \in {"SPF", "DMARC"} THEN <<>>
        ELSE <<[k |-> d[1].key,
                v |-> IF d[1].vals # <<>> THEN Join(CommaSpace, d[1].vals)
                                         ELSE Dash]>>)
       \o DnsRows(Tail(d))

(* d.get(k): the value, or None for a missing key; both None and [] are falsy. *)
GetOrEmpty(d, k) == IF k \in Keys(d) THEN Get(d, k) ELSE <<>>

print_dns(d, dom) ==
  <<Table(DnsTitle \o dom, DnsRows(d)),
    IF GetOrEmpty(d, "SPF") # <<>>
    THEN Panel(SpfTitle, "green", Join(Newline, Get(d, "SPF")))
    ELSE Panel(SpfTitle, "yellow", NoSpf),
    IF GetOrEmpty(d, "DMARC") # <<>>
    THEN Panel(DmarcTitle, "green", Join(Newline, Get(d, "DMARC")))
    ELSE Panel(DmarcTitle, "yellow", NoDmarc \o dom)>>

-----------------------------------------------------------------------------
(* Exporter *)

Semicolon == <<";">>

CsvHeader == <<"Section", "Key", <<"V", "a", "l", "u", "e">>>>

WhoisRows(rec) ==
  IF "error" \in DOMAIN rec
  THEN <<<<"WHOIS", "error", rec.error>>>>
  ELSE <<<<"WHOIS", "domain", rec.domain>>,
         <<"WHOIS", "registrar", rec.registrar>>,
         <<"WHOIS", "creation_date", rec.creation_date>>,
         <<"WHOIS", "updated_date", rec.updated_date>>,
         <<"WHOIS", "expiration_date", rec.expiration_date>>,
         <<"WHOIS", "name_servers", Join(Semicolon, rec.name_servers)>>,
         <<"WHOIS", "status", Join(Semicolon, rec.status)>>>>

TypeRows_skipEmpty(rt, vals) == [i \in 1..Len(vals) |-> <<"DNS", rt, vals[i]>>]

TypeRows(rt, vals) ==
  IF vals = <<>> THEN <<<<"DNS", rt, Dash>>>>
  ELSE [i \in 1..Len(vals) |-> <<"DNS", rt, vals[i]>>]

RECURSIVE DnsCsvRows(_)
DnsCsvRows(d) ==
  IF d = <<>> THEN <<>>
  ELSE TypeRows(d[1].key, d[1].vals) \o DnsCsvRows(Tail(d))

(* csv.writer writes None as the empty field. *)
CsvCell(v) == IF v = None THEN <<>> ELSE v

WriteRows(rows) ==
  [i \in 1..Len(rows) |-> <<rows[i][1], rows[i][2], CsvCell(rows[i][3])>>]

to_csv_rows(data) ==
  <<CsvHeader>> \o WhoisRows(data.whois) \o DnsCsvRows(data.dns)

CsvFile(data, path) ==
  [kind |-> "write", fn |-> "to_csv", path |-> path,
   rows |-> WriteRows(to_csv_rows(data))]

JsonFile(data, path) ==
  [kind |-> "write", fn |-> "to_json", path |-> path, json |-> data]

WriteFailed(fn, path) == [kind |-> "write_failed", fn |-> fn, path |-> path]

(* Lines 132-160 outside run: the rows are built, the file is opened and *)
(* written; failing to open or write the file raises.                    *)
ToCsv ==
  /\ pc = "to_csv"
  /\ \/ /\ io' = Append(io, CsvFile(out_data, out))
        /\ pc' = "returned"
     \/ /\ io' = Append(io, WriteFailed("to_csv", out))
        /\ pc' = "raised"
  /\ UNCHANGED <<domain, out, fmt, client, w, records, out_data, clock>>

-----------------------------------------------------------------------------
(* Orchestrator *)

MaxClock == 1

(* datetime.utcnow() when the clock shows c. *)
Utcnow(c) == [Y |-> 2024, M |-> 1, D |-> 2, h |-> 3, m |-> 4, s |-> c]

Isoformat(d) ==
  Digits(d.Y, 4) \o <<"-">> \o Digits(d.M, 2) \o <<"-">> \o Digits(d.D, 2)
    \o <<"T">> \o Digits(d.h, 2) \o <<":">> \o Digits(d.m, 2) \o <<":">>
    \o Digits(d.s, 2)

Bold == <<"b", "o", "l", "d">>

Cyan == <<"c", "y", "a", "n">>

BannerBody(dom, now) ==
  Markup(Bold, <<"W", "H", "O", "I", "S", " ", "&", " ", "D", "N", "S", " ",
                 "R", "e", "c", "o", "n">>)
    \o Newline \o <<"T", "a", "r", "g", "e", "t", ":", " ">> \o Markup(Cyan, dom)
    \o Newline \o <<"T", "i", "m", "e", ":", " ">> \o Strftime(now)
    \o <<" ", "U", "T", "C">>

Json == <<"j", "s", "o", "n">>

Csv == <<"c", "s", "v">>

SavedJson == Markup(<<"g", "r", "e", "e", "n">>,
                    <<"S", "a", "v", "e", "d", " ", "J", "S", "O", "N", " ",
                      "-", ">">>)

SavedCsv == Markup(<<"g", "r", "e", "e", "n">>,
                   <<"S", "a", "v", "e", "d", " ", "C", "S", "V", " ", " ",
                     "-", ">">>)

UnknownFormat == Markup(Red, <<"U", "n", "k", "n", "o", "w", "n", " ", "f",
                               "o", "r", "m", "a", "t", ";", " ", "u", "s",
                               "e", " ", "j", "s", "o", "n", " ", "o", "r",
                               " ", "c", "s", "v">>)

Dispatch_caseSensitive(o, f) ==
  IF ~Truthy(o) THEN "none"
  ELSE IF f = Json THEN "to_json"
  ELSE IF f = Csv THEN "to_csv"
  ELSE "unknown"

(* Lines 174-182: which branch the export takes. *)
Dispatch(o, f) ==
  IF ~Truthy(o) THEN "none"
  ELSE IF Lower(f) = Json THEN "to_json"
  ELSE IF Lower(f) = Csv THEN "to_csv"
  ELSE "unknown"

(* Lines 163-164 *)
Banner ==
  /\ pc = "run"
  /\ clock' \in clock..MaxClock
  /\ io' = Append(io, Panel(<<"R", "e", "c", "o", "n">>, "blue",
                            BannerBody(domain, Utcnow(clock'))))
  /\ pc' = "whois_lookup"
  /\ UNCHANGED <<domain, out, fmt, client, w, records, out_data>>

(* Line 169 *)
PrintWhois ==
  /\ pc = "print_whois"
  /\ io' = io \o print_whois(w)
  /\ pc' = "print_dns"
  /\ UNCHANGED <<domain, out, fmt, client, w, records, out_data, clock>>

(* Line 170 *)
PrintDns ==
  /\ pc = "print_dns"
  /\ io' = io \o print_dns(records, domain)
  /\ pc' = "export"
  /\ UNCHANGED <<domain, out, fmt, client, w, records, out_data, clock>>

(* Lines 172-182: an exporter that cannot open or write its file raises, *)
(* and nothing in run catches that.                                      *)
Export ==
  /\ pc = "export"
  /\ clock' \in clock..MaxClock
  /\ out_data' = [domain |-> domain, whois |-> w, dns |-> records,
                  timestamp_utc |-> Isoformat(Utcnow(clock'))]
  /\ LET branch == Dispatch(out, fmt)
     IN  CASE branch = "none" ->
                /\ io' = io
                /\ pc' = "done"
           [] branch = "to_json" ->
                \/ /\ io' = io \o <<JsonFile(out_data', out),
                                    Line("green", SavedJson, out)>>
                   /\ pc' = "done"
                \/ /\ io' = Append(io, WriteFailed("to_json", out))
                   /\ pc' = "raised"
           [] branch = "to_csv" ->
                \/ /\ io' = io \o <<CsvFile(out_data', out),
                                    Line("green", SavedCsv, out)>>
                   /\ pc' = "done"
                \/ /\ io' = Append(io, WriteFailed("to_csv", out))
                   /\ pc' = "raised"
           [] branch = "unknown" ->
                /\ io' = Append(io, Line("red", UnknownFormat, None))
                /\ pc' = "done"
  /\ UNCHANGED <<domain, out, fmt, client, w, records>>

-----------------------------------------------------------------------------
(* Inputs and environment behaviours *)

MaxNs == 2
MaxTxt == 2
MaxVals == 2

SeqsUpTo(S, n) == UNION {[1..k -> S] : k \in 0..n}

ExampleCom == <<"e", "x", "a", "m", "p", "l", "e", ".", "c", "o", "m">>

Domains == {ExampleCom, <<"a", ".", "i", "o">>}

OutPath == <<"o", ".", "c", "s", "v">>

NoResponse == <<"n", "o", " ", "r", "e", "s", "p", "o", "n", "s", "e">>

WhoisRaises ==
  {[kind |-> "raise", cls |-> c, msg |-> m] :
     c \in {"TimeoutError", "PywhoisError"},
     m \in {NoResponse, <<>>}}

Ns1UpperDot == <<"N", "S", "1", ".", "E", "X", "A", "M", "P", "L", "E", ".",
                 "C", "O", "M", ".">>
Ns2 == <<"n", "s", "2", ".", "e", "x", "a", "m", "p", "l", "e", ".", "c", "o",
         "m">>
Ns1Dot == <<"n", "s", "1", ".", "e", "x", "a", "m", "p", "l", "e", ".", "c",
            "o", "m", ".">>
Ns1 == <<"n", "s", "1", ".", "e", "x", "a", "m", "p", "l", "e", ".", "c", "o",
         "m">>

NsEntries == {Ns1UpperDot, Ns2, Ns1Dot, <<" ", "n", "s", "3", " ">>, <<".">>,
              <<>>}

NsExample == <<Ns1UpperDot, Ns2, Ns1Dot>>

NsValues ==
  {AbsentAttr, NoneAttr}
    \cup {[t |-> "str", s |-> e] : e \in NsEntries}
    \cup {[t |-> "list", l |-> x] : x \in SeqsUpTo(NsEntries, MaxNs) \cup {NsExample}}
    \cup {[t |-> "set", e |-> x] : x \in {y \in SUBSET NsEntries : Cardinality(y) = 2}}

Date1 == [t |-> "datetime", d |-> [Y |-> 1995, M |-> 8, D |-> 14, h |-> 4,
                                   m |-> 0, s |-> 0]]
Date2 == [t |-> "datetime", d |-> [Y |-> 2025, M |-> 12, D |-> 31, h |-> 23,
                                   m |-> 59, s |-> 59]]
DateText == [t |-> "str", s |-> <<"1", "9", "9", "5">>]

DateValues == {AbsentAttr, NoneAttr, Date1, DateText,
               [t |-> "list", l |-> <<Date2, Date1>>],
               [t |-> "list", l |-> <<>>]}

Active == <<"a", "c", "t", "i", "v", "e">>
Locked == <<"l", "o", "c", "k", "e", "d">>

StatusValues == {AbsentAttr, [t |-> "str", s |-> Active],
                 [t |-> "list", l |-> <<Locked, Active>>]}

WhoisObject(ns, cd, st) ==
  [registrar       |-> IF st.t = "absent" THEN NoneAttr
                       ELSE [t |-> "str", s |-> <<"R">>],
   creation_date   |-> cd,
   expiration_date |-> Date2,
   updated_date    |-> IF cd.t = "list" THEN AbsentAttr ELSE DateText,
   name_servers    |-> ns,
   status          |-> st,
   text            |-> IF cd.t = "none" THEN AbsentAttr
                       ELSE [t |-> "str", s |-> <<"r", "a", "w">>]]

(* Every name_servers value with one shape of the rest, and every shape of *)
(* the rest with one name_servers value.                                   *)
WhoisObjects ==
  {WhoisObject(ns, Date1, [t |-> "str", s |-> Active]) : ns \in NsValues}
    \cup {WhoisObject([t |-> "list", l |-> NsExample], cd, st) :
            cd \in DateValues, st \in StatusValues}

WhoisInputs == WhoisRaises \cup {[kind |-> "ok", obj |-> o] : o \in WhoisObjects}

RunWhoisInputs ==
  {[kind |-> "raise", cls |-> "TimeoutError", msg |-> NoResponse],
   [kind |-> "ok",
    obj |-> WhoisObject([t |-> "list", l |-> NsExample], Date1,
                        [t |-> "list", l |-> <<Locked, Active>>])]}

Rdata(rt, text) == [rdtype |-> rt, text |-> text]

Addr1 == <<"1", ".", "2", ".", "3", ".", "4">>
Addr2 == <<"0", ".", "0", ".", "0", ".", "0">>

SpfText == <<"v", "=", "s", "p", "f", "1", " ", "a">>
SpfUpperText == <<"V", "=", "S", "P", "F", "1", " ", "b">>
SpfQuotedText == <<"\"", "v", "=", "s", "p", "f", "1", "\"">>
DmarcText == <<"v", "=", "D", "M", "A", "R", "C", "1", ";">>
Unrelated == <<"u", "n", "r", "e", "l", "a", "t", "e", "d">>

TxtTexts == {SpfText, SpfUpperText, SpfQuotedText, DmarcText, Unrelated}

TimedOut == <<"t", "i", "m", "e", "d", " ", "o", "u", "t">>

Raises(cls) == [kind |-> "raise", cls |-> cls, msg |-> TimedOut]

Answers(rrset) == [kind |-> "answers", rrset |-> rrset]

Failures == {Raises("NXDOMAIN"), Raises("NoAnswer"), Raises("Timeout")}

FixedAnswers(i) ==
  IF i = 7 THEN Answers(<<Rdata("TXT", DmarcText), Rdata("TXT", Unrelated)>>)
  ELSE IF BaseTypes[i] = "TXT"
       THEN Answers(<<Rdata("TXT", SpfText), Rdata("TXT", Unrelated)>>)
  ELSE Answers(<<Rdata(BaseTypes[i], Addr1), Rdata(BaseTypes[i], Addr2)>>)

(* What the resolver may do at each of the seven queries. *)
DnsAll == [i \in 1..7 |-> Failures \cup {FixedAnswers(i)}]

DnsTxt ==
  [i \in 1..7 |->
     IF i \in {4, 7}
     THEN Failures \cup {Answers(x) :
            x \in SeqsUpTo({Rdata("TXT", t) : t \in TxtTexts}, MaxTxt) \ {<<>>}}
     ELSE {FixedAnswers(i)}]

DnsRun ==
  [i \in 1..7 |->
     CASE i = 1      -> Failures \cup {FixedAnswers(i)}
       [] i = 3      -> {FixedAnswers(i), Raises("NoAnswer")}
       [] i = 4      -> {FixedAnswers(i), Raises("Timeout")}
       [] i = 7      -> {FixedAnswers(i), Raises("NXDOMAIN")}
       [] OTHER      -> {FixedAnswers(i)}]

Formats == {Json, Csv, <<"J", "S", "O", "N">>, <<"C", "s", "v">>,
            <<"x", "m", "l">>}

OutPaths == {None, <<>>, OutPath}

CsvTypes == {"A", "MX"}

CsvDns ==
  {d \in SeqsUpTo([key : CsvTypes, vals : SeqsUpTo({Addr1, Unrelated}, MaxVals)],
                  Cardinality(CsvTypes)) :
     \A i, j \in 1..Len(d) : d[i].key = d[j].key => i = j}

CsvWhois ==
  {WhoisError(NoResponse),
   WhoisData(ExampleCom,
             WhoisObject([t |-> "list", l |-> NsExample], Date1,
                         [t |-> "list", l |-> <<Locked, Active>>]),
             NsExample, <<Locked, Active>>),
   WhoisData(ExampleCom, WhoisObject(NoneAttr, NoneAttr, AbsentAttr),
             <<>>, <<>>)}

-----------------------------------------------------------------------------
(* Specifications *)

Blank ==
  /\ w = Unset
  /\ records = <<>>
  /\ io = <<>>
  /\ out_data = Unset
  /\ clock = 0

(* run(domain, out, fmt) *)
Init ==
  /\ pc = "run"
  /\ domain = ExampleCom
  /\ out \in OutPaths
  /\ fmt \in Formats
  /\ client \in RunWhoisInputs
  /\ Blank

Next ==
  \/ Banner
  \/ WhoisLookup("gather_dns")
  \/ \E qi \in 1..Len(BaseTypes) : GatherBase(DnsRun, qi)
  \/ GatherDerived(DnsRun, "print_whois")
  \/ PrintWhois
  \/ PrintDns
  \/ Export

Spec == Init /\ [][Next]_vars

(* whois_lookup(domain) *)
InitWhois ==
  /\ pc = "whois_lookup"
  /\ domain \in Domains
  /\ out = None
  /\ fmt = Json
  /\ client \in WhoisInputs
  /\ Blank

NextWhois == WhoisLookup("returned")

SpecWhois == InitWhois /\ [][NextWhois]_vars

(* gather_dns(domain), every kind of outcome at every query *)
InitDns ==
  /\ pc = "gather_dns"
  /\ domain \in Domains
  /\ out = None
  /\ fmt = Json
  /\ client = [kind |-> "unused"]
  /\ Blank

NextDns ==
  \/ \E qi \in 1..Len(BaseTypes) : GatherBase(DnsAll, qi)
  \/ GatherDerived(DnsAll, "returned")

SpecDns == InitDns /\ [][NextDns]_vars

(* gather_dns(domain), every TXT answer at the two TXT queries *)
InitTxt ==
  /\ pc = "gather_dns"
  /\ domain = ExampleCom
  /\ out = None
  /\ fmt = Json
  /\ client = [kind |-> "unused"]
  /\ Blank

NextTxt ==
  \/ \E qi \in 1..Len(BaseTypes) : GatherBase(DnsTxt, qi)
  \/ GatherDerived(DnsTxt, "returned")

SpecTxt == InitTxt /\ [][NextTxt]_vars

(* to_csv(data, out_path) *)
InitCsv ==
  /\ pc = "to_csv"
  /\ domain = ExampleCom
  /\ out = OutPath
  /\ fmt = Csv
  /\ client = [kind |-> "unused"]
  /\ w = Unset
  /\ records = <<>>
  /\ io = <<>>
  /\ clock = 0
  /\ out_data \in [domain : {ExampleCom}, whois : CsvWhois, dns : CsvDns,
                   timestamp_utc : {Isoformat(Utcnow(0))}]

NextCsv == ToCsv

SpecCsv == InitCsv /\ [][NextCsv]_vars

-----------------------------------------------------------------------------
(* Claims about whois_lookup, under SpecWhois *)

WhoisCalls == SelectSeq(io, LAMBDA e : e.kind = "whois")

(* C1: whenever the WHOIS client raises, whois_lookup returns a record whose *)
(* only key is error, holding "WHOIS failed: " followed by the exception's   *)
(* message; it does not raise, it has called the client exactly once, and   *)
(* the call always returns.                                                 *)
C1_WhoisErrorRecord ==
  /\ pc \in {"whois_lookup", "returned"}
  /\ pc = "whois_lookup" => ENABLED NextWhois
  /\ (pc = "returned" /\ client.kind = "raise") =>
       /\ DOMAIN w = {"error"}
       /\ w.error = <<"W", "H", "O", "I", "S", " ", "f", "a", "i", "l", "e",
                      "d", ":", " ">> \o client.msg
       /\ Len(WhoisCalls) = 1
       /\ WhoisCalls[1].domain = domain

C1_Witness ==
  /\ pc = "returned"
  /\ client.kind = "raise"
  /\ client.msg = NoResponse
  /\ "error" \in DOMAIN w

C6_StripSpace(s) == Strip(s, {" "})

C6_StripTrailingDots(s) ==
  LET keep == {i \in 1..Len(s) : s[i] # "."}
  IN  IF keep = {} THEN <<>>
      ELSE SubSeq(s, 1, CHOOSE i \in keep : \A j \in keep : j <= i)

C6_Normal(s) == Lower(C6_StripTrailingDots(C6_StripSpace(s)))

C6_Entries ==
  LET x == GetAttr(client.obj, "name_servers", EmptyListAttr)
  IN  CASE x.t = "none" -> {}
        [] x.t = "list" -> Range(x.l)
        [] x.t = "set"  -> x.e
        [] x.t = "str"  -> {x.s}

(* C6: on a successful lookup, name_servers is the ascending, duplicate-free *)
(* list of the client's entries, lowercased, with surrounding whitespace and *)
(* trailing dots stripped and empty entries discarded; in particular        *)
(* ["NS1.EXAMPLE.COM.", "ns2.example.com", "ns1.example.com."] gives        *)
(* ["ns1.example.com", "ns2.example.com"].                                  *)
C6_NameServersNormalized ==
  (pc = "returned" /\ client.kind = "ok") =>
    /\ w.name_servers = Sorted({C6_Normal(e) : e \in C6_Entries} \ {<<>>})
    /\ client.obj.name_servers = [t |-> "list", l |-> NsExample] =>
         w.name_servers = <<Ns1, Ns2>>

-----------------------------------------------------------------------------
(* Claims about gather_dns and dns_query, under SpecDns and SpecTxt *)

Failed(q) == q.outcome.kind = "raise"

FailedAs(q, cls) == Failed(q) /\ q.outcome.cls = cls

(* C2: whatever the resolver does at each query, gather_dns goes on to      *)
(* return, and what it returns has exactly the 8 keys A, AAAA, MX, TXT, NS, *)
(* CNAME, SPF, DMARC.                                                       *)
C2_EightKeys ==
  /\ pc \in {"gather_dns", "returned"}
  /\ pc = "gather_dns" => ENABLED NextDns
  /\ pc = "returned" =>
       /\ Keys(records) = {"A", "AAAA", "MX", "TXT", "NS", "CNAME", "SPF", "DMARC"}
       /\ Len(records) = 8

C2_Witness ==
  /\ pc = "returned"
  /\ \E i, j, k \in 1..Len(Queries) :
       /\ FailedAs(Queries[i], "NXDOMAIN")
       /\ FailedAs(Queries[j], "NoAnswer")
       /\ FailedAs(Queries[k], "Timeout")
  /\ FailedAs(Queries[4], "Timeout")
  /\ Len(records) = 8

C4_Expected ==
  <<<<domain, "A">>, <<domain, "AAAA">>, <<domain, "MX">>, <<domain, "TXT">>,
    <<domain, "NS">>, <<domain, "CNAME">>,
    <<<<"_", "d", "m", "a", "r", "c", ".">> \o domain, "TXT">>>>

(* C4: the resolver calls gather_dns has made are always the first so many  *)
(* of A, AAAA, MX, TXT, NS, CNAME for the domain and then TXT for           *)
(* _dmarc.<domain>, each once and in that order, whatever the earlier calls *)
(* ended in; when it returns it has made all 7, and nothing else.           *)
C4_SevenQueriesInOrder ==
  /\ Len(io) <= 7
  /\ \A i \in 1..Len(io) :
       /\ io[i].kind = "resolve"
       /\ <<io[i].qname, io[i].rtype>> = C4_Expected[i]
  /\ pc = "returned" => Len(io) = 7

C4_Witness ==
  /\ pc = "returned"
  /\ Len(io) = 7
  /\ FailedAs(io[1], "NXDOMAIN")
  /\ FailedAs(io[3], "Timeout")
  /\ FailedAs(io[4], "NoAnswer")

C5_Value(i) == Get(records, Queries[i].rtype)

(* C5: for each base query, the stored result of dns_query is ["NXDOMAIN"]  *)
(* when the domain was not found, [] when there was no answer, the single   *)
(* element "DNS error: <message>" for any other resolver failure, and on    *)
(* success the text of each answer record, in the resolver's order.         *)
C5_OutcomeToValue ==
  \A i \in 1..Len(Queries) :
    i <= 6 =>
      LET o == Queries[i].outcome
          v == C5_Value(i)
      IN  /\ (o.kind = "raise" /\ o.cls = "NXDOMAIN") =>
               v = <<<<"N", "X", "D", "O", "M", "A", "I", "N">>>>
          /\ (o.kind = "raise" /\ o.cls = "NoAnswer") => v = <<>>
          /\ (o.kind = "raise" /\ o.cls \notin {"NXDOMAIN", "NoAnswer"}) =>
               v = <<<<"D", "N", "S", " ", "e", "r", "r", "o", "r", ":", " ">>
                     \o o.msg>>
          /\ o.kind = "answers" =>
               /\ Len(v) = Len(o.rrset)
               /\ \A j \in 1..Len(v) : v[j] = o.rrset[j].text

C5_Witness ==
  /\ pc = "returned"
  /\ Queries[4].outcome.kind = "answers"
  /\ Get(records, "TXT") = <<SpfText, DmarcText>>

C9_Texts(q) ==
  IF q.outcome.kind = "answers"
  THEN [j \in 1..Len(q.outcome.rrset) |-> q.outcome.rrset[j].text]
  ELSE <<>>

RECURSIVE C9_Keep(_, _)
(* The subsequence of l whose elements, lowercased, start with prefix. *)
C9_Keep(l, prefix) ==
  IF l = <<>> THEN <<>>
  ELSE IF StartsWith(Lower(Head(l)), prefix)
       THEN <<Head(l)>> \o C9_Keep(Tail(l), prefix)
       ELSE C9_Keep(Tail(l), prefix)

(* C9: in what gather_dns returns, SPF is the TXT values of the domain that *)
(* start, lowercased, with v=spf1, in their order, and DMARC is the values  *)
(* answered to the TXT query for _dmarc.<domain> that start, lowercased,    *)
(* with v=dmarc1, in their order; there is no query beyond the 7.           *)
C9_SpfDmarcDerived ==
  pc = "returned" =>
    /\ Get(records, "SPF") =
         C9_Keep(Get(records, "TXT"), <<"v", "=", "s", "p", "f", "1">>)
    /\ Get(records, "DMARC") =
         C9_Keep(C9_Texts(Queries[7]), <<"v", "=", "d", "m", "a", "r", "c", "1">>)
    /\ Queries[7].qname = <<"_", "d", "m", "a", "r", "c", ".">> \o domain
    /\ Len(Queries) = 7

C9_Witness ==
  /\ pc = "returned"
  /\ Get(records, "TXT") = <<SpfUpperText, Unrelated>>
  /\ Get(records, "SPF") = <<SpfUpperText>>
  /\ C9_Texts(Queries[7]) = <<Unrelated, DmarcText>>
  /\ Get(records, "DMARC") = <<DmarcText>>

C10_ErrorQuery(q) == Failed(q) /\ q.outcome.cls # "NoAnswer"

C10_Marker(q) ==
  IF q.outcome.cls = "NXDOMAIN"
  THEN <<"N", "X", "D", "O", "M", "A", "I", "N">>
  ELSE <<"D", "N", "S", " ", "e", "r", "r", "o", "r", ":", " ">> \o q.outcome.msg

(* The query behind each key: SPF is derived from the domain's TXT query, *)
(* DMARC from the _dmarc query.                                           *)
C10_Backing(k) ==
  CASE k = "A" -> 1 [] k = "AAAA" -> 2 [] k = "MX" -> 3 [] k = "TXT" -> 4
    [] k = "NS" -> 5 [] k = "CNAME" -> 6 [] k = "SPF" -> 4 [] k = "DMARC" -> 7

(* C10 as claimed: for every one of the 8 keys, when the query behind it   *)
(* ended in domain-not-found or another resolver error, the key's value is *)
(* the single error marker, not the empty list.                            *)
C10_Original ==
  pc = "returned" =>
    \A k \in {"A", "AAAA", "MX", "TXT", "NS", "CNAME", "SPF", "DMARC"} :
      C10_ErrorQuery(Queries[C10_Backing(k)]) =>
        Get(records, k) = <<C10_Marker(Queries[C10_Backing(k)])>>

(* C10 amended: for each of the six base types, when its query ended in   *)
(* domain-not-found or another resolver error the value is the single     *)
(* error marker, and the value is empty only when the query had no answer *)
(* records; SPF and DMARC are empty whenever the query behind them failed. *)
C10_BaseKeysKeepMarker ==
  pc = "returned" =>
    /\ \A k \in {"A", "AAAA", "MX", "TXT", "NS", "CNAME"} :
         LET q == Queries[C10_Backing(k)]
         IN  /\ C10_ErrorQuery(q) => Get(records, k) = <<C10_Marker(q)>>
             /\ Get(records, k) = <<>> =>
                  \/ FailedAs(q, "NoAnswer")
                  \/ q.outcome.kind = "answers" /\ q.outcome.rrset = <<>>
    /\ \A k \in {"SPF", "DMARC"} :
         Failed(Queries[C10_Backing(k)]) => Get(records, k) = <<>>

C10_Witness ==
  /\ pc = "returned"
  /\ FailedAs(Queries[1], "NXDOMAIN")
  /\ FailedAs(Queries[4], "Timeout")
  /\ FailedAs(Queries[7], "NXDOMAIN")
  /\ Get(records, "A") = <<NXDOMAIN>>
  /\ Get(records, "SPF") = <<>>

-----------------------------------------------------------------------------
(* Claims about run, under Spec *)

C3_Rendered == pc \in {"export", "done", "raised"}

C3_WhoisRendering(e) ==
  IF client.kind = "raise"
  THEN /\ e.widget = "panel"
       /\ e.title = <<"W", "H", "O", "I", "S">>
       /\ e.body = <<"[", "r", "e", "d", "]", "W", "H", "O", "I", "S", " ",
                     "f", "a", "i", "l", "e", "d", ":", " ">>
                     \o client.msg \o <<"[", "/", "r", "e", "d", "]">>
  ELSE /\ e.widget = "table"
       /\ e.title = <<"W", "H", "O", "I", "S", ":", " ">> \o domain
       /\ e.rows[5].v = Join(<<",", " ">>, w.name_servers)

(* C3: every run goes banner, WHOIS client call, the 7 resolver queries,   *)
(* WHOIS rendering, DNS rendering, in that order, whether or not the WHOIS *)
(* client raised and whether or not resolver queries failed; a failed      *)
(* WHOIS lookup is rendered as the red WHOIS panel; the run always goes on *)
(* to its next step, and nothing but a failed file write ends it early.    *)
C3_RunOrder ==
  /\ pc \notin {"done", "raised"} => ENABLED Next
  /\ pc = "raised" => io[Len(io)].kind = "write_failed"
  /\ Len(io) >= 1 => io[1].kind = "print" /\ io[1].style = "blue"
  /\ Len(io) >= 2 => io[2].kind = "whois"
  /\ \A i \in 3..9 : Len(io) >= i => io[i].kind = "resolve"
  /\ pc = "print_whois" => Len(io) = 9
  /\ pc = "print_dns" => Len(io) = 10
  /\ C3_Rendered =>
       /\ Len(io) >= 13
       /\ io[10].kind = "print" /\ C3_WhoisRendering(io[10])
       /\ io[11].kind = "print" /\ io[11].widget = "table"
       /\ io[11].title = <<"D", "N", "S", " ", "R", "e", "c", "o", "r", "d",
                           "s", ":", " ">> \o domain
       /\ Len(io[11].rows) = 6
       /\ io[12].kind = "print" /\ io[12].widget = "panel"
       /\ io[13].kind = "print" /\ io[13].widget = "panel"

C3_Witness ==
  /\ pc = "done"
  /\ client.kind = "raise"
  /\ FailedAs(Queries[1], "Timeout")
  /\ io[10].style = "red"
  /\ io[11].rows[1].v = DnsErrorPrefix \o TimedOut

C7_Calls == SelectSeq(io, LAMBDA e : e.kind \in {"write", "write_failed"})

C7_Tail == SubSeq(io, 14, Len(io))

C7_Exported(fn, saved) ==
  \/ pc = "done" /\ Len(C7_Tail) = 2
       /\ C7_Tail[1].kind = "write" /\ C7_Tail[1].fn = fn
       /\ C7_Tail[1].path = out
       /\ C7_Tail[2].kind = "print" /\ C7_Tail[2].path = out
       /\ C7_Tail[2].body = saved
  \/ pc = "raised" /\ Len(C7_Tail) = 1
       /\ C7_Tail[1].kind = "write_failed" /\ C7_Tail[1].fn = fn

C7_Refused ==
  /\ pc = "done"
  /\ Len(C7_Tail) = 1
  /\ C7_Tail[1].kind = "print" /\ C7_Tail[1].style = "red"

C7_Silent == pc = "done" /\ C7_Tail = <<>>

C7_SavedJson == <<"[", "g", "r", "e", "e", "n", "]", "S", "a", "v", "e", "d",
                  " ", "J", "S", "O", "N", " ", "-", ">", "[", "/", "g", "r",
                  "e", "e", "n", "]">>

C7_SavedCsv == <<"[", "g", "r", "e", "e", "n", "]", "S", "a", "v", "e", "d",
                 " ", "C", "S", "V", " ", " ", "-", ">", "[", "/", "g", "r",
                 "e", "e", "n", "]">>

(* No output path given: None, or the empty string (--out ""). *)
C7_NoPath == out = None \/ out = <<>>

(* C7 as claimed: with an output path and format json or csv, exactly the    *)
(* matching exporter is called once and the confirmation naming the path is *)
(* printed after it returns; with an output path and any other format, only *)
(* the error message is printed and the run completes; with no output path, *)
(* nothing is exported.                                                     *)
C7_Original ==
  pc \in {"done", "raised"} =>
    /\ C7_NoPath => C7_Silent
    /\ (~C7_NoPath /\ fmt = <<"j", "s", "o", "n">>) =>
         C7_Exported("to_json", C7_SavedJson)
    /\ (~C7_NoPath /\ fmt = <<"c", "s", "v">>) =>
         C7_Exported("to_csv", C7_SavedCsv)
    /\ (~C7_NoPath /\ fmt \notin {<<"j", "s", "o", "n">>, <<"c", "s", "v">>}) =>
         C7_Refused

(* C7 amended: the format is compared after lowercasing.  With an output    *)
(* path and a format that lowercases to json or csv, exactly the matching   *)
(* exporter is called once and the confirmation naming the path is printed  *)
(* after it returns; with an output path and any other format, only the     *)
(* error message is printed and the run completes; with no output path,     *)
(* nothing is exported and nothing is printed, whatever the format.         *)
C7_ExportDispatch ==
  pc \in {"done", "raised"} =>
    LET lowered == Lower(fmt)
    IN  /\ C7_NoPath => C7_Silent
        /\ (~C7_NoPath /\ lowered = <<"j", "s", "o", "n">>) =>
             C7_Exported("to_json", C7_SavedJson)
        /\ (~C7_NoPath /\ lowered = <<"c", "s", "v">>) =>
             C7_Exported("to_csv", C7_SavedCsv)
        /\ (~C7_NoPath /\ lowered \notin {<<"j", "s", "o", "n">>, <<"c", "s", "v">>}) =>
             C7_Refused

C7_Witness ==
  /\ pc = "done"
  /\ out = OutPath
  /\ fmt = <<"J", "S", "O", "N">>
  /\ Len(C7_Calls) = 1
  /\ C7_Calls[1].fn = "to_json"

-----------------------------------------------------------------------------
(* Claims about to_csv, under SpecCsv *)

C8_Rows == io[1].rows

C8_Cell(v) == IF v = None THEN <<>> ELSE v

C8_WhoisCount == IF "error" \in DOMAIN out_data.whois THEN 1 ELSE 7

C8_Span(vals) == IF Len(vals) = 0 THEN 1 ELSE Len(vals)

RECURSIVE C8_Before(_)
(* Rows written before the rows of the k-th record type. *)
C8_Before(k) ==
  IF k = 1 THEN 1 + C8_WhoisCount
  ELSE C8_Before(k - 1) + C8_Span(out_data.dns[k - 1].vals)

(* C8: the rows to_csv writes are the header (Section, Key, Value); then    *)
(* (WHOIS, error, message) alone if the WHOIS record has an error, else the *)
(* seven WHOIS rows domain, registrar, creation_date, updated_date,         *)
(* expiration_date, name_servers and status (the last two joined with       *)
(* semicolons); then per record type, in the mapping's order, (DNS, type,   *)
(* -) for an empty list and else (DNS, type, value) per value in order.     *)
C8_CsvRows ==
  pc = "returned" =>
    LET rec == out_data.whois
        d   == out_data.dns
        n   == Len(d)
    IN  /\ C8_Rows[1] = <<"Section", "Key", <<"V", "a", "l", "u", "e">>>>
        /\ "error" \in DOMAIN rec =>
             C8_Rows[2] = <<"WHOIS", "error", rec.error>>
        /\ "error" \notin DOMAIN rec =>
             /\ C8_Rows[2] = <<"WHOIS", "domain", C8_Cell(rec.domain)>>
             /\ C8_Rows[3] = <<"WHOIS", "registrar", C8_Cell(rec.registrar)>>
             /\ C8_Rows[4] = <<"WHOIS", "creation_date", C8_Cell(rec.creation_date)>>
             /\ C8_Rows[5] = <<"WHOIS", "updated_date", C8_Cell(rec.updated_date)>>
             /\ C8_Rows[6] = <<"WHOIS", "expiration_date",
                               C8_Cell(rec.expiration_date)>>
             /\ C8_Rows[7] = <<"WHOIS", "name_servers",
                               Join(<<";">>, rec.name_servers)>>
             /\ C8_Rows[8] = <<"WHOIS", "status", Join(<<";">>, rec.status)>>
        /\ Len(C8_Rows) = C8_Before(n + 1)
        /\ \A k \in 1..n :
             IF d[k].vals = <<>>
             THEN C8_Rows[C8_Before(k) + 1] = <<"DNS", d[k].key, <<"-">>>>
             ELSE \A i \in 1..Len(d[k].vals) :
                    C8_Rows[C8_Before(k) + i] = <<"DNS", d[k].key, d[k].vals[i]>>

C8_Witness ==
  /\ pc = "returned"
  /\ "error" \notin DOMAIN out_data.whois
  /\ out_data.dns = <<[key |-> "A", vals |-> <<Addr1>>],
                      [key |-> "MX", vals |-> <<>>]>>
  /\ C8_Rows[9] = <<"DNS", "A", Addr1>>
  /\ C8_Rows[10] = <<"DNS", "MX", <<"-">>>>
  /\ Len(C8_Rows) = 10

====
